---- MODULE Spec2Model ----
(***************************************************************************)
(* old-relic: the query engine of the terminal dashboard.                  *)
(*                                                                         *)
(* The model covers the Control Bus (a crossbeam unbounded channel whose   *)
(* receiver handle is cloned for every worker), the Result Bus (std mpsc), *)
(* the Scheduler's listener (tui/src/main.rs, listen), the time-series     *)
(* workers (tui/src/backend.rs, refresh_timeseries), the refresh timer and *)
(* the consumer's dataset map (tui/src/app.rs, tui/src/dataset.rs), and    *)
(* the consumer loop's key handlers with the input buffers                 *)
(* (tui/src/app.rs, App::run; tui/src/input.rs).                           *)
(*                                                                         *)
(* A query text is a sequence of words (whitespace is abstracted away).    *)
(***************************************************************************)
EXTENDS Integers, Sequences, FiniteSets, TLC

\* ------------------------------------------------------------------ bounds
\* Serializations of one text in one run of the parser's specification.
MaxRounds == 2
\* Control Bus messages sent in one run of the listener's specification.
MaxSends == 4
\* Control Bus messages sent in one run of the workers' specification.
MaxCtl == 1
\* Worker tasks Backend::add_query may spawn in one run.
MaxWorkers == 2
\* Payloads the Result Bus holds before the consumer drains it.
MaxData == 1

\* Payloads the Result Bus holds in one run of the consumer's specification.
MaxBus == 2
\* Rows in one response of the Telemetry Client.
MaxRows == 3
\* Characters the operator types into one input.
MaxBuf == 2

\* f64::MAX, as a number above every time and value of the rows.
F64_MAX == 1000

\* ------------------------------------------------------------ query texts
TS1 == <<"SELECT", "a", "FROM", "T", "WHERE", "x", "TIMESERIES">>
TS2 == <<"select", "b", "FROM", "T", "WHERE", "y", "SINCE", "s", "TIMESERIES">>
LOG1 == <<"SELECT", "c", "FROM", "Log", "WHERE", "z">>
BAD == <<"banana", "soup">>
\* A text the grammar rejects that holds the TIMESERIES token.
BAD2 == <<"soup", "TIMESERIES">>
\* A text of the grammar without a WHERE clause: from_captures panics on it.
\* It is an input of the parser's specification only.
NOWHERE == <<"SELECT", "d", "FROM", "T">>

\* The texts the operator types into the query box.
RawTexts == {TS1, TS2, LOG1, BAD, BAD2}

\* Option<String>: None is the empty sequence, Some(v) the one-element one.
None == <<>>
Some(v) == <<v>>

ClauseOrder == <<"SELECT", "FROM", "WHERE", "FACET", "SINCE", "UNTIL", "LIMIT", "TIMESERIES">>

\* Clause names are matched without regard to letter case.
Upper(w) ==
    CASE w = "select" -> "SELECT"
      [] w = "from" -> "FROM"
      [] w = "where" -> "WHERE"
      [] w = "facet" -> "FACET"
      [] w = "since" -> "SINCE"
      [] w = "until" -> "UNTIL"
      [] w = "limit" -> "LIMIT"
      [] w = "timeseries" -> "TIMESERIES"
      [] OTHER -> w

\* First position after `from` at which clause name kw stands, 0 when none.
FindKw(s, kw, from) ==
    LET hits == {i \in (from + 1)..Len(s) : Upper(s[i]) = kw}
    IN IF hits = {} THEN 0 ELSE CHOOSE i \in hits : \A j \in hits : i <= j

\* Positions of the clause names of s, taken in the grammar's fixed order:
\* pos[k] is the position of ClauseOrder[k], 0 when the clause is absent.
RECURSIVE ClausePos(_, _, _, _)
ClausePos(s, k, last, acc) ==
    IF k > Len(ClauseOrder) THEN acc
    ELSE LET p == FindKw(s, ClauseOrder[k], last)
         IN ClausePos(s, k + 1, IF p = 0 THEN last ELSE p, Append(acc, p))

\* The words of clause k: from its name up to the next clause present.
ClauseText(s, pos, k) ==
    LET later == {pos[j] : j \in (k + 1)..Len(pos)} \ {0}
        stop == IF later = {} THEN Len(s) + 1
                ELSE CHOOSE i \in later : \A j \in later : i <= j
    IN SubSeq(s, pos[k] + 1, stop - 1)

Capture(s, pos, k) == IF pos[k] = 0 THEN None ELSE Some(ClauseText(s, pos, k))

\* The named captures of the grammar, None when the grammar does not match
\* (the text does not begin with SELECT, or has no FROM).
Captures(s) ==
    LET pos == ClausePos(s, 1, 0, <<>>)
    IN IF pos[1] # 1 \/ pos[2] = 0 THEN None
       ELSE Some([select |-> Capture(s, pos, 1), from |-> Capture(s, pos, 2),
                  where |-> Capture(s, pos, 3), facet |-> Capture(s, pos, 4),
                  since |-> Capture(s, pos, 5), until |-> Capture(s, pos, 6),
                  limit |-> Capture(s, pos, 7),
                  mode |-> IF pos[8] = 0 THEN None
                           ELSE Some(SubSeq(s, pos[8], Len(s)))])

\* NRQLQuery::from_captures: from, select and where are unwrapped (a missing
\* one panics), the other clauses are kept as options.
from_captures(c) ==
    IF c.from = None \/ c.select = None \/ c.where = None
    THEN [kind |-> "panic"]
    ELSE [kind |-> "ok",
          q |-> [from |-> c.from[1], select |-> c.select[1], where |-> c.where[1],
                 facet |-> c.facet, since |-> c.since, until |-> c.until,
                 limit |-> c.limit, mode |-> c.mode]]

\* <&str as NRQL>::to_nrql: Err when the grammar does not match.
to_nrql(s) ==
    LET c == Captures(s)
    IN IF c = None THEN [kind |-> "err"] ELSE from_captures(c[1])

\* A classifier that also takes a FACET clause for a sign of a time series.
QueryTypeFromFacet(q) == IF q.mode # None \/ q.facet # None THEN "Timeseries" ELSE "Log"

\* QueryType::from: a mode makes the query a Timeseries query.
QueryTypeFrom(q) == IF q.mode # None THEN "Timeseries" ELSE "Log"

Opt(word, o) == IF o = None THEN <<>> ELSE <<word>> \o o[1]

\* NRQLQuery::to_string.
to_string(q) ==
    <<"SELECT">> \o q.select
    \o (IF q.mode = Some(<<"TIMSERIES">>) THEN <<"as", "value">> ELSE <<>>)
    \o <<"FROM">> \o q.from
    \o <<"WHERE">> \o q.where
    \o Opt("FACET", q.facet)
    \o Opt("since", q.since)
    \o Opt("until", q.until)
    \o Opt("limit", q.limit)
    \o (IF q.mode = None THEN <<>> ELSE q.mode[1])

\* A template without the SELECT .. FROM .. WHERE frame.
AllColumnSearchBare(raw) == raw

\* ALL_COLUMN_SEARCH.replace('$', raw): the fallback text of an unparsable raw.
AllColumnSearch(raw) ==
    <<"SELECT", "*", "FROM", "Log", "WHERE", "allColumnSearch('">> \o raw
    \o <<"',", "insensitive:", "true)">>

\* --------------------------------------------------- parser.rs (nom parser)
\* tag(kw): the input must begin with kw; the rest of the input is returned.
Tag(s, kw) == IF s # <<>> /\ Head(s) = kw THEN Some(Tail(s)) ELSE None

\* take_until(kw): the input up to the first kw, and the rest from kw on;
\* an error when kw does not occur.
TakeUntil(s, kw) ==
    LET hits == {i \in 1..Len(s) : s[i] = kw}
    IN IF hits = {} THEN None
       ELSE LET i == CHOOSE h \in hits : \A j \in hits : h <= j
            IN Some([out |-> SubSeq(s, 1, i - 1), rest |-> SubSeq(s, i, Len(s))])

\* parse_from, parse_select, parse_where, parse_facet, parse_since,
\* parse_until: tag(kw) followed by take_until(next).
ParseClause(s, kw, next) ==
    IF Tag(s, kw) = None THEN None ELSE TakeUntil(Tag(s, kw)[1], next)

\* parse_limit: tag("LIMIT"), then alt(take_until("TIMESERIES"), take_until("TABLE")).
parse_limit(s) ==
    IF Tag(s, "LIMIT") = None THEN None
    ELSE IF TakeUntil(Tag(s, "LIMIT")[1], "TIMESERIES") # None
         THEN TakeUntil(Tag(s, "LIMIT")[1], "TIMESERIES")
         ELSE TakeUntil(Tag(s, "LIMIT")[1], "TABLE")

\* parse_timeseries: alt(tag("TIMESERIES"), tag("TABLE")), the word matched.
parse_timeseries(s) ==
    IF Tag(s, "TIMESERIES") # None THEN Some(<<"TIMESERIES">>)
    ELSE IF Tag(s, "TABLE") # None THEN Some(<<"TABLE">>)
    ELSE None

\* The clauses parse_nrql unwraps one after the other, each with the word
\* that ends it.
NomClauses == <<
    <<"FROM", "SELECT">>, <<"SELECT", "WHERE">>, <<"WHERE", "FACET">>,
    <<"FACET", "SINCE">>, <<"SINCE", "UNTIL">>, <<"UNTIL", "LIMIT">> >>

\* parse_nrql up to parse_until: the outputs so far, or a panic as soon as
\* one sub-parser returns an error (each result is unwrapped).
RECURSIVE NomChain(_, _, _)
NomChain(s, k, acc) ==
    IF k > Len(NomClauses) THEN [kind |-> "ok", rest |-> s, outs |-> acc]
    ELSE LET r == ParseClause(s, NomClauses[k][1], NomClauses[k][2])
         IN IF r = None THEN [kind |-> "panic"]
            ELSE NomChain(r[1].rest, k + 1, Append(acc, r[1].out))

\* parse_nrql: Ok(outputs), or a panic; there is no path that returns Err.
parse_nrql(s) ==
    LET c == NomChain(s, 1, <<>>)
    IN IF c.kind = "panic" \/ parse_limit(c.rest) = None THEN [kind |-> "panic"]
       ELSE IF parse_timeseries(parse_limit(c.rest)[1].rest) = None THEN [kind |-> "panic"]
       ELSE [kind |-> "ok",
             map |-> [FROM |-> c.outs[1], SELECT |-> c.outs[2], WHERE |-> c.outs[3],
                      FACET |-> c.outs[4], SINCE |-> c.outs[5], UNTIL |-> c.outs[6],
                      LIMIT |-> parse_limit(c.rest)[1].out,
                      MODE |-> parse_timeseries(parse_limit(c.rest)[1].rest)[1]]]

\* ------------------------------------------------------------------ state
VARIABLES
    ui_chan,      \* Control Bus: the crossbeam channel behind ui_tx / ui_rx
    nsent,        \* messages sent on the Control Bus so far
    data_chan,    \* Result Bus: the mpsc channel behind data_tx / data_rx
    queries,      \* listen: the HashSet of active raw texts
    lpc,          \* listen: "recv", "add" (awaiting the first execution),
                  \*         "refresh" (awaiting a re-execution), "done", "dead"
    lcur,         \* listen: the raw text whose execution is awaited
    ltodo,        \* listen: the active queries the refresh loop has not reached
    refreshExecs, \* executions of each raw text by the refresh being processed
    workers,      \* the tasks spawned by Backend::add_query
    datasets,     \* App.data.timeseries.datasets: key -> facets
    cancelled,    \* per worker: 0, or 1 + payloads sent since its delete was published
    deleted,      \* keys the operator deleted and has not submitted again
    rx_dropped,   \* the consumer has dropped data_rx, the Result Bus receiver
    parser,       \* one text on its way through the parser and the serializer
    agg,          \* one list of rows on its way through the aggregation
    app           \* App: focus, inputs, query history, selection, aliases, logs

vars == <<ui_chan, nsent, data_chan, queries, lpc, lcur, ltodo, refreshExecs,
          workers, datasets, cancelled, deleted, rx_dropped, parser, agg, app>>

\* The state of the engine, apart from the pure functions under check.
engine == <<ui_chan, nsent, data_chan, queries, lpc, lcur, ltodo, refreshExecs,
            workers, datasets, cancelled, deleted, rx_dropped, app>>

WorkerIds == 1..MaxWorkers

\* The receivers of the Control Bus: the listener and the workers.
Listener == 0
Receivers == {Listener} \cup WorkerIds

\* UIEvent
AddQuery(t) == [kind |-> "AddQuery", text |-> t]
DeleteQuery(t) == [kind |-> "DeleteQuery", text |-> t]
RefreshQuery == [kind |-> "RefreshQuery", text |-> <<>>]

\* What one execution through the Telemetry Client comes back with.
Responses == {"rows", "empty", "err"}

\* The outcomes that leave different Payloads behind: a failed poll leaves
\* the Payload of a poll without rows.
Facets == {"rows", "empty"}

\* The queries a worker is spawned for (time-series queries, already parsed).
WorkerQueries == {to_nrql(TS1).q, to_nrql(TS2).q}

EmptyMap == [k \in {} |-> "rows"]

NoWorker == [pc |-> "none", query |-> None]

LiveIn(ws, w) == ws[w].pc \in {"drain", "inflight"}
Live(w) == LiveIn(workers, w)

\* The receivers that hold the Control Bus open.
Subscribed(r) == IF r = Listener THEN lpc \notin {"done", "dead"} ELSE Live(r)

\* The identity a worker compares deletions with and tags its payloads with.
WorkerKey(w) == to_string(workers[w].query[1])

\* No text is on its way through the parser.
ParserIdle ==
    [pc |-> "idle", input |-> <<>>, nom |-> [kind |-> "none"],
     first |-> [kind |-> "none"], cur |-> [kind |-> "none"], class |-> "none",
     text |-> <<>>, rounds |-> 0]

\* Focus as usize: the discriminants of the enum.
as_usize(panel) ==
    CASE panel = "QueryInput" -> 0
      [] panel = "Rename" -> 1
      [] panel = "SessionLoad" -> 2
      [] panel = "Default" -> 3
      [] panel = "Dashboard" -> 4
      [] panel = "SessionSave" -> 5
      [] panel = "Log" -> 6
      [] panel = "LogDetail" -> 7
      [] panel = "Search" -> 8
      [] panel = "NoResult" -> 9

\* The indices of _inputs: [Input; 9].
InputSlots == 0..8

\* App::new with Inputs::new, UI::default, Data::default and
\* Session.is_loaded = false.
\* meta holds has_data and query_alias of every Dataset of the map; pc is
\* "run" while App::run loops, "panicked" after a panic, "returned" after
\* it returned.
App_new ==
    [pc |-> "run", tab |-> "Logs", panel |-> "Default", input_mode |-> "Normal",
     is_loaded |-> FALSE,
     inputs |-> [i \in InputSlots |-> [buffer |-> <<>>, cursor_position |-> 0]],
     query_history |-> <<>>, list_state |-> None, selected |-> <<>>, meta |-> <<>>,
     logs |-> [logs |-> <<>>, filters |-> {}]]

InitEngine ==
    /\ ui_chan = <<>>
    /\ nsent = 0
    /\ data_chan = <<>>
    /\ queries = {}
    /\ lpc = "recv"
    /\ lcur = <<>>
    /\ ltodo = {}
    /\ refreshExecs = [t \in RawTexts |-> 0]
    /\ workers = [w \in WorkerIds |-> NoWorker]
    /\ datasets = EmptyMap
    /\ cancelled = [w \in WorkerIds |-> 0]
    /\ deleted = {}
    /\ rx_dropped = FALSE
    /\ app = App_new

\* No list of rows is on its way through the aggregation.
AggIdle == [pc |-> "idle", rows |-> <<>>, facets |-> <<>>, bounds |-> <<>>]

Init == InitEngine /\ parser = ParserIdle /\ agg = AggIdle

\* ----------------------------------------------------------- the channels
\* Sender::send on the Control Bus (crossbeam unbounded: never blocks).
UiSend(m) ==
    /\ ui_chan' = Append(ui_chan, m)
    /\ nsent' = nsent + 1

\* Receiver::recv / try_iter().next() on any clone of ui_rx: the head of the
\* one queue the clones share is taken.
UiRecv ==
    /\ ui_chan # <<>>
    /\ ui_chan' = Tail(ui_chan)

\* Sender::send on the Result Bus, as the sequence of payloads it leaves.
DataSend(ps) == data_chan \o ps

\* PayloadType
TimeseriesPayload(key, data) == [type |-> "Timeseries", query |-> key, data |-> data]
LogPayload(text) == [type |-> "Log", query |-> text, data |-> "rows"]
NonePayload == [type |-> "None", query |-> <<>>, data |-> "empty"]

\* ------------------------------------------------------------ the listener
\* What to_nrql().map(QueryType::from) makes of a raw text.
Classify(raw) ==
    LET r == to_nrql(raw)
    IN IF r.kind = "ok" THEN QueryTypeFrom(r.q) ELSE r.kind

\* query_timeseries(q, client): the payload of one successful execution,
\* keyed by the serialized query.
query_timeseries(q, resp) == TimeseriesPayload(to_string(q), resp)

\* A listener that classifies the fallback query as it does a typed one.
AddQueryPayloadsClassified(raw, resp) ==
    IF resp = "err" THEN <<>>
    ELSE IF resp = "empty" THEN <<NonePayload>>
    ELSE IF Classify(raw) = "Timeseries" THEN <<query_timeseries(to_nrql(raw).q, resp)>>
    ELSE IF Classify(raw) = "Log" THEN <<LogPayload(raw)>>
    ELSE IF Classify(AllColumnSearch(raw)) = "Timeseries"
    THEN <<query_timeseries(to_nrql(AllColumnSearch(raw)).q, resp)>>
    ELSE <<LogPayload(AllColumnSearch(raw))>>

\* The match arms of UIEvent::AddQuery once the execution has come back:
\* what is pushed on the Result Bus.
AddQueryPayloads(raw, resp) ==
    IF resp = "err" THEN <<>>
    ELSE IF resp = "empty" THEN <<NonePayload>>
    ELSE IF Classify(raw) = "Timeseries" THEN <<query_timeseries(to_nrql(raw).q, resp)>>
    ELSE IF Classify(raw) = "Log" THEN <<LogPayload(raw)>>
    ELSE <<LogPayload(AllColumnSearch(raw))>>

\* A listener that registers the text whatever the execution came back with.
AddQueryRegisterAlways(qs, raw, resp) == qs \cup {raw}

\* The match arms of UIEvent::AddQuery: the active set afterwards.
AddQueryRegister(qs, raw, resp) == IF resp = "rows" THEN qs \cup {raw} ELSE qs

\* A refresh loop that stops after the first time-series query.
RefreshTargetsFirst(qs) ==
    LET ts == {t \in qs : Classify(t) = "Timeseries"}
    IN IF ts = {} THEN {} ELSE {CHOOSE t \in ts : TRUE}

\* A refresh loop that re-executes every active query that parses.
RefreshTargetsParsed(qs) == {t \in qs : Classify(t) \in {"Timeseries", "Log"}}

\* UIEvent::RefreshQuery: the active queries the loop re-executes.
RefreshTargets(qs) == {t \in qs : Classify(t) = "Timeseries"}

\* A listener that leaves the active set alone on DeleteQuery.
RemoveQueryNoop(qs, t) == qs

\* UIEvent::DeleteQuery: queries.remove(&query).
RemoveQuery(qs, t) == qs \ {t}

\* The listener takes the next event off the Control Bus and runs its arm up
\* to the first await.
ListenRecv ==
    /\ lpc = "recv"
    /\ UiRecv
    /\ LET ev == Head(ui_chan)
       IN CASE ev.kind = "AddQuery" ->
                 /\ lpc' = CASE Classify(ev.text) = "panic" -> "dead"
                             [] Classify(ev.text) = "err"
                                /\ to_nrql(AllColumnSearch(ev.text)).kind = "err" -> "done"
                             [] OTHER -> "add"
                 /\ lcur' = IF lpc' = "add" THEN ev.text ELSE <<>>
                 /\ UNCHANGED <<queries, ltodo, refreshExecs>>
            [] ev.kind = "RefreshQuery" ->
                 LET ts == RefreshTargets(queries)
                 IN IF ts = {}
                    THEN /\ refreshExecs' = [t \in RawTexts |-> 0]
                         /\ UNCHANGED <<queries, lpc, lcur, ltodo>>
                    ELSE \E t \in ts :
                           /\ lpc' = "refresh"
                           /\ lcur' = t
                           /\ ltodo' = ts \ {t}
                           /\ refreshExecs' = [u \in RawTexts |-> IF u = t THEN 1 ELSE 0]
                           /\ UNCHANGED queries
            [] ev.kind = "DeleteQuery" ->
                 /\ queries' = RemoveQuery(queries, ev.text)
                 /\ UNCHANGED <<lpc, lcur, ltodo, refreshExecs>>
    /\ UNCHANGED <<parser, agg, app, rx_dropped, nsent, data_chan, workers, datasets, cancelled, deleted>>

\* The text the listener sends to the Telemetry Client for a raw text.
RequestText(raw) ==
    IF Classify(raw) = "err" THEN to_string(to_nrql(AllColumnSearch(raw)).q)
    ELSE to_string(to_nrql(raw).q)

\* data_tx.send(..)? in listen: the error of a refused send is returned,
\* which ends the listener; otherwise it receives the next event.
ListenAfterSend(sent) == IF sent THEN "recv" ELSE "done"

\* The first execution of an added query comes back.  With the receiver
\* dropped a send is refused: nothing is queued.
ListenAddDone ==
    /\ lpc = "add"
    /\ \E resp \in Responses :
         /\ queries' = AddQueryRegister(queries, lcur, resp)
         /\ IF rx_dropped /\ AddQueryPayloads(lcur, resp) # <<>>
            THEN /\ data_chan' = data_chan
                 /\ lpc' = ListenAfterSend(FALSE)
            ELSE /\ Len(data_chan) + Len(AddQueryPayloads(lcur, resp)) <= MaxData
                 /\ data_chan' = DataSend(AddQueryPayloads(lcur, resp))
                 /\ lpc' = ListenAfterSend(TRUE)
    /\ lcur' = <<>>
    /\ UNCHANGED <<parser, agg, app, rx_dropped, ui_chan, nsent, ltodo, refreshExecs, workers, datasets, cancelled,
                   deleted>>

\* What a re-execution pushes on the Result Bus.
RefreshPayloads(raw, resp) ==
    IF resp = "err" THEN <<>>
    ELSE IF resp = "empty" THEN <<NonePayload>>
    ELSE <<query_timeseries(to_nrql(raw).q, resp)>>

\* A re-execution comes back; the loop goes on to the next active query.
ListenRefreshDone ==
    /\ lpc = "refresh"
    /\ \E resp \in Responses :
         IF rx_dropped /\ RefreshPayloads(lcur, resp) # <<>>
         THEN /\ data_chan' = data_chan
              /\ lpc' = ListenAfterSend(FALSE)
              /\ lcur' = <<>>
              /\ ltodo' = {}
              /\ UNCHANGED refreshExecs
         ELSE /\ Len(data_chan) + Len(RefreshPayloads(lcur, resp)) <= MaxData
              /\ data_chan' = DataSend(RefreshPayloads(lcur, resp))
              /\ IF ltodo = {}
                 THEN /\ lpc' = ListenAfterSend(TRUE)
                      /\ lcur' = <<>>
                      /\ UNCHANGED <<ltodo, refreshExecs>>
                 ELSE \E t \in ltodo :
                        /\ lcur' = t
                        /\ ltodo' = ltodo \ {t}
                        /\ refreshExecs' = [refreshExecs EXCEPT ![t] = @ + 1]
                        /\ UNCHANGED lpc
    /\ UNCHANGED <<parser, agg, app, rx_dropped, ui_chan, nsent, queries, workers, datasets, cancelled, deleted>>

\* main: the interval task that publishes RefreshQuery.
RefreshTick ==
    /\ UiSend(RefreshQuery)
    /\ UNCHANGED <<parser, agg, app, rx_dropped, data_chan, queries, lpc, lcur, ltodo, refreshExecs, workers,
                   datasets, cancelled, deleted>>

\* ------------------------------------------------------------- the workers
\* Backend::add_query: spawn refresh_timeseries with a clone of ui_rx.
SpawnWorker(ws, w, q) == [ws EXCEPT ![w] = [pc |-> "drain", query |-> Some(q)]]

Backend_add_query(q) ==
    /\ \E w \in WorkerIds :
         /\ workers[w].pc = "none"
         /\ \A v \in WorkerIds : v < w => workers[v].pc # "none"
         /\ workers' = SpawnWorker(workers, w, q)
    /\ deleted' = deleted \ {to_string(q)}
    /\ UNCHANGED <<parser, agg, app, rx_dropped, ui_chan, nsent, data_chan, queries, lpc, lcur, ltodo, refreshExecs,
                   datasets, cancelled>>

\* A worker that ends on any deletion.
WorkerMatchesAnyDelete(q, m) == m.kind = "DeleteQuery"

\* refresh_timeseries: does message m end the worker of query q?
WorkerMatches(q, m) == m.kind = "DeleteQuery" /\ m.text = to_string(q)

\* refresh_timeseries, the drain at the top of the loop: one try_iter().next()
\* that finds a message.
WorkerRecv(w) ==
    /\ workers[w].pc = "drain"
    /\ UiRecv
    /\ workers' = [workers EXCEPT ![w].pc =
                     IF WorkerMatches(workers[w].query[1], Head(ui_chan))
                     THEN "done" ELSE "drain"]
    /\ UNCHANGED <<parser, agg, app, rx_dropped, nsent, data_chan, queries, lpc, lcur, ltodo, refreshExecs, datasets,
                   cancelled, deleted>>

\* refresh_timeseries: the drain finds the channel empty, the clock is on a
\* second divisible by 5, the request goes out.  (On any other second the
\* worker sleeps and loops: no change of state.)
WorkerPoll(w) ==
    /\ workers[w].pc = "drain"
    /\ ui_chan = <<>>
    /\ workers' = [workers EXCEPT ![w].pc = "inflight"]
    /\ UNCHANGED <<parser, agg, app, rx_dropped, ui_chan, nsent, data_chan, queries, lpc, lcur, ltodo, refreshExecs,
                   datasets, cancelled, deleted>>

\* A worker that hands the outcome of client.query on as it is.
WorkerPayloadRaw(q, resp) ==
    [type |-> "Timeseries", query |-> to_string(q), data |-> resp, cause |-> resp]

\* refresh_timeseries: the payload built from what client.query came back
\* with (unwrap_or_default: no rows on a transport error).  cause is not a
\* field of Payload: it records the outcome the payload was built from.
WorkerPayload(q, resp) ==
    [type |-> "Timeseries", query |-> to_string(q),
     data |-> IF resp = "rows" THEN "rows" ELSE "empty", cause |-> resp]

\* A worker that discards the result of data_tx.send.
AfterSendIgnored(sent) == "drain"

\* data_tx.send(..)? in refresh_timeseries: after a send the worker sleeps
\* and returns to the top of its loop; the error of a refused send is
\* returned, which ends the task.
AfterSend(sent) == IF sent THEN "drain" ELSE "senderr"

\* refresh_timeseries: the request comes back, the payload is sent, the
\* worker sleeps and returns to the top of its loop.  With the receiver
\* dropped the send is refused: nothing is queued.
WorkerSend(w, resp) ==
    /\ workers[w].pc = "inflight"
    /\ IF rx_dropped
       THEN data_chan' = data_chan
       ELSE /\ Len(data_chan) < MaxData
            /\ data_chan' = DataSend(<<WorkerPayload(workers[w].query[1], resp)>>)
    /\ workers' = [workers EXCEPT ![w].pc = AfterSend(~rx_dropped)]
    /\ cancelled' = [cancelled EXCEPT ![w] = IF @ = 0 THEN 0 ELSE IF @ < 3 THEN @ + 1 ELSE @]
    /\ UNCHANGED <<parser, agg, app, rx_dropped, ui_chan, nsent, queries, lpc, lcur, ltodo, refreshExecs, datasets,
                   deleted>>

\* NewRelicClient::query in backend.rs: the response arrives but its
\* envelope does not deserialize; expect() panics and the task unwinds.
WorkerMalformed(w) ==
    /\ workers[w].pc = "inflight"
    /\ workers' = [workers EXCEPT ![w].pc = "panicked"]
    /\ UNCHANGED <<parser, agg, app, rx_dropped, ui_chan, nsent, data_chan, queries, lpc, lcur, ltodo,
                   refreshExecs, datasets, cancelled, deleted>>

\* ---------------------------------------------------------- the aggregation
\* TimeseriesResult: the rows a response is drawn from.  A row spans the
\* ten seconds before its end time.
EndTimes == {10, 20, 30}
Values == {-1, 1, 3, 5}
FacetLabels == {None, Some("A")}
TimeseriesResult ==
    {[begin_time_seconds |-> e - 10, end_time_seconds |-> e, facet |-> f, value |-> v] :
        e \in EndTimes, f \in FacetLabels, v \in Values}

\* Vec<TimeseriesResult> of at most MaxRows rows.
RowLists == UNION {[1..n -> TimeseriesResult] : n \in 0..MaxRows}

Min(a, b) == IF a <= b THEN a ELSE b
Max(a, b) == IF a >= b THEN a ELSE b

\* A bounds pass that folds in the begin time of a row.
BoundsPointBegin(point) == <<point.begin_time_seconds, point.value>>

\* The pair of a row the bounds pass folds in.
BoundsPoint(point) == <<point.end_time_seconds, point.value>>

\* refresh_timeseries, the pass over &data: min_bounds starts at
\* (f64::MAX, f64::MAX), max_bounds at (0, 0).
RECURSIVE FoldBounds(_, _, _)
FoldBounds(data, k, b) ==
    IF k > Len(data) THEN b
    ELSE FoldBounds(data, k + 1,
           [mins |-> <<Min(b.mins[1], BoundsPoint(data[k])[1]),
                       Min(b.mins[2], BoundsPoint(data[k])[2])>>,
            maxes |-> <<Max(b.maxes[1], BoundsPoint(data[k])[1]),
                        Max(b.maxes[2], BoundsPoint(data[k])[2])>>])

BoundsOf(data) == FoldBounds(data, 1, [mins |-> <<F64_MAX, F64_MAX>>, maxes |-> <<0, 0>>])

\* A label for the rows without one that is the empty string.
FacetOfDefault(row) == IF row.facet = None THEN "" ELSE row.facet[1]

\* data.facet.unwrap_or(String::from("value"))
FacetOf(row) == IF row.facet = None THEN "value" ELSE row.facet[1]

\* A first point that is taken at the end time like the later ones.
FirstPointEnd(row) == <<row.end_time_seconds, row.value>>

\* facets.insert(facet, vec![(data.begin_time_seconds, data.value)])
FirstPoint(row) == <<row.begin_time_seconds, row.value>>

\* facets.get_mut(facet).extend_from_slice(&[(data.end_time_seconds, data.value)])
LaterPoint(row) == <<row.end_time_seconds, row.value>>

\* A loop that inserts a fresh vector for every row, whether or not the
\* facet is there already.
RECURSIVE FoldFacetsInsert(_, _, _)
FoldFacetsInsert(data, k, facets) ==
    IF k > Len(data) THEN facets
    ELSE LET facet == FacetOf(data[k])
         IN FoldFacetsInsert(data, k + 1,
              [f \in DOMAIN facets \cup {facet} |->
                 IF f = facet THEN <<FirstPoint(data[k])>> ELSE facets[f]])

\* refresh_timeseries, the loop that fills the BTreeMap facets.
RECURSIVE FoldFacets(_, _, _)
FoldFacets(data, k, facets) ==
    IF k > Len(data) THEN facets
    ELSE LET facet == FacetOf(data[k])
         IN FoldFacets(data, k + 1,
              IF facet \in DOMAIN facets
              THEN [facets EXCEPT ![facet] = Append(@, LaterPoint(data[k]))]
              ELSE [f \in DOMAIN facets \cup {facet} |->
                      IF f = facet THEN <<FirstPoint(data[k])>> ELSE facets[f]])

NoFacets == [f \in {} |-> <<>>]

FacetsOf(data) == FoldFacets(data, 1, NoFacets)

InitAggregator ==
    /\ InitEngine
    /\ parser = ParserIdle
    /\ \E data \in RowLists : agg = [AggIdle EXCEPT !.pc = "start", !.rows = data]

\* refresh_timeseries from the response to the Payload's data and bounds.
A_aggregate ==
    /\ agg.pc = "start"
    /\ agg' = [agg EXCEPT !.pc = "done", !.facets = FacetsOf(agg.rows),
                          !.bounds = BoundsOf(agg.rows)]
    /\ UNCHANGED <<engine, parser>>

NextAggregator == A_aggregate

SpecAggregator == InitAggregator /\ [][NextAggregator]_vars

\* The responses the workers of the consumer's specification receive.
RowA == [begin_time_seconds |-> 0, end_time_seconds |-> 10, facet |-> Some("A"), value |-> 1]
RowV == [begin_time_seconds |-> 10, end_time_seconds |-> 20, facet |-> None, value |-> 5]
PollRows == {<<RowA>>, <<RowV>>, <<RowA, RowV>>}

\* refresh_timeseries: the Payload of a response, its facets and bounds
\* spelled out.
WorkerPayloadOf(q, data) ==
    [type |-> "Timeseries", query |-> to_string(q),
     data |-> [facets |-> FacetsOf(data), bounds |-> BoundsOf(data)],
     cause |-> IF data = <<>> THEN "empty" ELSE "rows"]

\* WorkerSend with the rows of the response spelled out.
WorkerSendRows(w, data) ==
    /\ workers[w].pc = "inflight"
    /\ IF rx_dropped
       THEN data_chan' = data_chan
       ELSE /\ Len(data_chan) < MaxBus
            /\ data_chan' = DataSend(<<WorkerPayloadOf(workers[w].query[1], data)>>)
    /\ workers' = [workers EXCEPT ![w].pc = AfterSend(~rx_dropped)]
    /\ cancelled' = [cancelled EXCEPT ![w] = IF @ = 0 THEN 0 ELSE IF @ < 3 THEN @ + 1 ELSE @]
    /\ UNCHANGED <<parser, agg, app, rx_dropped, ui_chan, nsent, queries, lpc, lcur, ltodo,
                   refreshExecs, datasets, deleted>>

\* ------------------------------------------------------------ the consumer
\* The byte order of the words that distinguish the keys of the dataset map.
WordOrd(w) ==
    CASE w = "*" -> 1
      [] w = "SELECT" -> 2
      [] w = "a" -> 3
      [] w = "b" -> 4
      [] w = "c" -> 5
      [] OTHER -> 0

RECURSIVE StrLess(_, _)
StrLess(a, b) ==
    IF a = <<>> THEN b # <<>>
    ELSE IF b = <<>> THEN FALSE
    ELSE IF Head(a) = Head(b) THEN StrLess(Tail(a), Tail(b))
    ELSE WordOrd(Head(a)) < WordOrd(Head(b))

\* datasets.keys().nth(i), i counted from 0.
NthKey(m, i) == CHOOSE k \in DOMAIN m : Cardinality({j \in DOMAIN m : StrLess(j, k)}) = i

\* The key under which the payloads of a raw text arrive, None for one
\* that is not a time-series query.
KeyOf(raw) ==
    IF Classify(raw) = "Timeseries" THEN Some(to_string(to_nrql(raw).q)) ELSE None

\* App::add_query: publish AddQuery(raw).
App_add_query(raw) ==
    /\ UiSend(AddQuery(raw))
    /\ deleted' = {k \in deleted : k # raw /\ Some(k) # KeyOf(raw)}
    /\ UNCHANGED <<parser, agg, app, rx_dropped, data_chan, queries, lpc, lcur, ltodo, refreshExecs, workers, datasets,
                   cancelled>>

\* Datasets::remove_entry
remove_entry(m, i) == [k \in DOMAIN m \ {NthKey(m, i)} |-> m[k]]

\* App::delete_query with list_state.selected() = Some(i): remove the i-th
\* dataset and publish DeleteQuery(its key).  Key_x follows list_state
\* and the panics as well.
App_delete_query(i) ==
    /\ i < Cardinality(DOMAIN datasets)
    /\ LET removed == NthKey(datasets, i)
       IN /\ datasets' = remove_entry(datasets, i)
          /\ UiSend(DeleteQuery(removed))
          /\ deleted' = deleted \cup {removed}
          /\ cancelled' = [w \in WorkerIds |->
                             IF Live(w) /\ WorkerKey(w) = removed /\ cancelled[w] = 0
                             THEN 1 ELSE cancelled[w]]
    /\ UNCHANGED <<parser, agg, app, rx_dropped, data_chan, queries, lpc, lcur, ltodo, refreshExecs, workers>>

\* A consumer that keeps the facets of the earlier polls which the payload
\* does not bring.
IngestTimeseriesMerge(m, p) ==
    [k \in DOMAIN m \cup {p.query} |->
        IF k # p.query THEN m[k]
        ELSE IF k \notin DOMAIN m THEN p.data
        ELSE [facets |-> [f \in DOMAIN m[k].facets \cup DOMAIN p.data.facets |->
                            IF f \in DOMAIN p.data.facets THEN p.data.facets[f]
                            ELSE m[k].facets[f]],
              bounds |-> p.data.bounds]]

\* A consumer that appends the points of the payload to those it holds.
IngestTimeseriesAppend(m, p) ==
    [k \in DOMAIN m \cup {p.query} |->
        IF k # p.query THEN m[k]
        ELSE IF k \notin DOMAIN m THEN p.data
        ELSE [facets |-> [f \in DOMAIN m[k].facets \cup DOMAIN p.data.facets |->
                            (IF f \in DOMAIN m[k].facets THEN m[k].facets[f] ELSE <<>>)
                            \o (IF f \in DOMAIN p.data.facets THEN p.data.facets[f] ELSE <<>>)],
              bounds |-> p.data.bounds]]

\* A consumer that shows the dataset of the last payload only.
IngestTimeseriesLast(m, p) == [k \in {p.query} |-> p.data]

\* App::run, PayloadType::Timeseries: insert the dataset of a vacant key,
\* replace the facets of an occupied one.
IngestTimeseries(m, p) ==
    [k \in DOMAIN m \cup {p.query} |-> IF k = p.query THEN p.data ELSE m[k]]

\* App::run: take one payload off the Result Bus, as far as the dataset map
\* goes; Run_payload follows the focus, the aliases and the logs as well.
App_ingest ==
    /\ ~rx_dropped
    /\ data_chan # <<>>
    /\ data_chan' = Tail(data_chan)
    /\ datasets' = IF Head(data_chan).type = "Timeseries"
                   THEN IngestTimeseries(datasets, Head(data_chan))
                   ELSE datasets
    /\ UNCHANGED <<parser, agg, app, rx_dropped, ui_chan, nsent, queries, lpc, lcur, ltodo, refreshExecs, workers,
                   cancelled, deleted>>

\* App::run returns (the operator quits): data_rx is dropped with the App,
\* and the payloads still queued with it.
App_quit ==
    /\ ~rx_dropped
    /\ rx_dropped' = TRUE
    /\ data_chan' = <<>>
    /\ UNCHANGED <<parser, agg, app, ui_chan, nsent, queries, lpc, lcur, ltodo, refreshExecs,
                   workers, datasets, cancelled, deleted>>

\* ------------------------------------------------------- the input buffers
\* The characters the operator types.
Chars == {"a", "y"}

\* Inputs::clamp_cursor: new_cursor_pos.clamp(0, len)
clamp_cursor(in, new_cursor_pos) ==
    IF new_cursor_pos < 0 THEN 0
    ELSE IF new_cursor_pos > Len(in.buffer) THEN Len(in.buffer)
    ELSE new_cursor_pos

\* Inputs::move_cursor_left: saturating_sub(1), clamped.
move_cursor_left(in) ==
    [in EXCEPT !.cursor_position =
        clamp_cursor(in, IF in.cursor_position = 0 THEN 0 ELSE in.cursor_position - 1)]

\* Inputs::move_cursor_right: saturating_add(1), clamped.
move_cursor_right(in) ==
    [in EXCEPT !.cursor_position = clamp_cursor(in, in.cursor_position + 1)]

\* Inputs::enter_char, for a cursor that String::insert accepts.
enter_char(in, new_char) ==
    move_cursor_right(
        [in EXCEPT !.buffer = SubSeq(in.buffer, 1, in.cursor_position) \o <<new_char>>
                              \o SubSeq(in.buffer, in.cursor_position + 1, Len(in.buffer))])

\* Inputs::delete_char: chars().take(cursor - 1) chained with
\* chars().skip(cursor).
delete_char(in) ==
    IF in.cursor_position # 0
    THEN LET n == in.cursor_position - 1
         IN move_cursor_left(
                [in EXCEPT !.buffer =
                    SubSeq(in.buffer, 1, IF n < Len(in.buffer) THEN n ELSE Len(in.buffer))
                    \o SubSeq(in.buffer, in.cursor_position + 1, Len(in.buffer))])
    ELSE in

\* Inputs::set: the buffer is replaced, the cursor stays.
set(in, value) == [in EXCEPT !.buffer = value]

\* Inputs::clear: the buffer is emptied, the cursor stays.
clear(in) == [in EXCEPT !.buffer = <<>>]

\* Inputs::reset_cursor
reset_cursor(in) == [in EXCEPT !.cursor_position = 0]

\* Inputs::move_cursor_end: the cursor goes behind the last character.
move_cursor_end(in) == [in EXCEPT !.cursor_position = Len(in.buffer)]

\* ------------------------------------------------------- the consumer loop
\* A panic unwinds App::run.
Panic(a) == [a EXCEPT !.pc = "panicked"]

\* App::run, "Session Load": until the session prompt is answered every
\* iteration puts the focus on it before it reads an event.
SessionCheck(a) ==
    IF ~a.is_loaded
    THEN [a EXCEPT !.panel = "SessionLoad", !.input_mode = "Input"]
    ELSE a

\* The App the handlers of this iteration work on.
Foc == SessionCheck(app)

Running == app.pc = "run" /\ ~rx_dropped

\* _inputs[focus as usize] is within the array.
HasInput(panel) == as_usize(panel) \in InputSlots

\* The handlers that touch nothing but the App.
LoopFrame ==
    UNCHANGED <<parser, agg, rx_dropped, ui_chan, nsent, data_chan, queries, lpc, lcur,
                ltodo, refreshExecs, workers, datasets, cancelled, deleted>>

\* KeyCode::Char('q')
Key_q ==
    /\ Running
    /\ Foc.input_mode = "Normal"
    /\ app' = [Foc EXCEPT !.panel = "SessionSave", !.input_mode = "Input"]
    /\ LoopFrame

\* KeyCode::Char('F')
Key_F ==
    /\ Running
    /\ Foc.input_mode = "Normal"
    /\ app' = [Foc EXCEPT !.panel = "Search", !.input_mode = "Input"]
    /\ LoopFrame

\* KeyCode::Char('e')
Key_e ==
    /\ Running
    /\ Foc.input_mode = "Normal"
    /\ app' = [Foc EXCEPT !.panel = "QueryInput", !.input_mode = "Input"]
    /\ LoopFrame

\* KeyCode::Char('r')
Key_r ==
    /\ Running
    /\ Foc.input_mode = "Normal"
    /\ app' = IF Foc.panel # "QueryInput" /\ DOMAIN datasets # {}
              THEN [Foc EXCEPT !.panel = "Rename", !.input_mode = "Input"]
              ELSE Foc
    /\ LoopFrame

\* KeyCode::Char('d')
Key_d ==
    /\ Running
    /\ Foc.input_mode = "Normal"
    /\ app' = [Foc EXCEPT !.panel = IF @ = "Dashboard" THEN "Default" ELSE "Dashboard"]
    /\ LoopFrame

\* App::next_tab
next_tab(a) == [a EXCEPT !.tab = IF @ = "Graph" THEN "Logs" ELSE "Graph"]

\* KeyCode::Char('T')
Key_T ==
    /\ Running
    /\ Foc.input_mode = "Normal"
    /\ app' = next_tab(Foc)
    /\ LoopFrame

\* App::rehydrate_query
rehydrate_query(a) ==
    [a EXCEPT !.inputs[as_usize("QueryInput")] = set(@, a.selected)]

\* KeyCode::Char('i')
Key_i ==
    /\ Running
    /\ Foc.input_mode = "Normal"
    /\ app' = rehydrate_query(Foc)
    /\ LoopFrame

\* KeyCode::Esc, in either mode.
Key_Esc ==
    /\ Running
    /\ app' = IF Foc.input_mode = "Normal" THEN [Foc EXCEPT !.panel = "Default"]
              ELSE IF Foc.panel = "SessionLoad" THEN Foc
              ELSE [Foc EXCEPT !.panel = "Default", !.input_mode = "Normal"]
    /\ LoopFrame

\* An input operation on _inputs[self.focus.panel as usize]: the index
\* panics for a panel without a buffer.
OnFocused(a, Op(_)) ==
    IF HasInput(a.panel)
    THEN [a EXCEPT !.inputs[as_usize(a.panel)] = Op(@)]
    ELSE Panic(a)

\* KeyCode::Char(to_insert) in input mode.  String::insert(idx, ch) panics
\* when idx is beyond the end of the string.
Key_Char(to_insert) ==
    /\ Running
    /\ Foc.input_mode = "Input"
    /\ app' = IF /\ HasInput(Foc.panel)
                 /\ Foc.inputs[as_usize(Foc.panel)].cursor_position
                      > Len(Foc.inputs[as_usize(Foc.panel)].buffer)
              THEN Panic(Foc)
              ELSE OnFocused(Foc, LAMBDA in : enter_char(in, to_insert))
    /\ LoopFrame

\* KeyCode::Backspace
Key_Backspace ==
    /\ Running
    /\ Foc.input_mode = "Input"
    /\ app' = OnFocused(Foc, delete_char)
    /\ LoopFrame

\* KeyCode::Left
Key_Left ==
    /\ Running
    /\ Foc.input_mode = "Input"
    /\ app' = OnFocused(Foc, move_cursor_left)
    /\ LoopFrame

\* KeyCode::Right
Key_Right ==
    /\ Running
    /\ Foc.input_mode = "Input"
    /\ app' = OnFocused(Foc, move_cursor_right)
    /\ LoopFrame

\* KeyCode::Up in input mode: pop_front().unwrap_or_default() goes into
\* the query box and to the back of the history.
Key_Up ==
    /\ Running
    /\ Foc.input_mode = "Input"
    /\ LET h == Foc.query_history
           query == IF h = <<>> THEN <<>> ELSE Head(h)
       IN app' = [Foc EXCEPT
                    !.inputs[as_usize("QueryInput")] = move_cursor_end(set(clear(@), query)),
                    !.query_history = Append(IF h = <<>> THEN <<>> ELSE Tail(h), query)]
    /\ LoopFrame

\* KeyCode::Down in input mode: pop_back().unwrap_or_default() goes into
\* the query box and to the front of the history.
Key_Down ==
    /\ Running
    /\ Foc.input_mode = "Input"
    /\ LET h == Foc.query_history
           query == IF h = <<>> THEN <<>> ELSE h[Len(h)]
       IN app' = [Foc EXCEPT
                    !.inputs[as_usize("QueryInput")] = move_cursor_end(set(@, query)),
                    !.query_history =
                        <<query>> \o (IF h = <<>> THEN <<>> ELSE SubSeq(h, 1, Len(h) - 1))]
    /\ LoopFrame

\* App::add_query, the App's part: the text joins the history.
add_query(a, query) == [a EXCEPT !.query_history = Append(@, query)]

\* App::add_query, the Control Bus's part.
SendAddQuery(query) ==
    /\ UiSend(AddQuery(query))
    /\ deleted' = {k \in deleted : k # query /\ Some(k) # KeyOf(query)}
    /\ UNCHANGED <<parser, agg, rx_dropped, data_chan, queries, lpc, lcur, ltodo,
                   refreshExecs, workers, cancelled>>

\* Bounds::default
Bounds_default == [mins |-> <<0, 0>>, maxes |-> <<0, 0>>]

\* App::rename_query, the Dataset's has_data and query_alias.
rename_query(a, query, alias) ==
    [a EXCEPT !.meta =
        [k \in DOMAIN a.meta \cup {query} |->
            IF k # query THEN a.meta[k]
            ELSE IF k \in DOMAIN a.meta THEN [a.meta[k] EXCEPT !.query_alias = Some(alias)]
            ELSE [has_data |-> FALSE, query_alias |-> Some(alias)]]]

\* App::rename_query, the Dataset's facets and bounds: a vacant entry gets
\* an empty Dataset.
RenameDatasets(m, query) ==
    [k \in DOMAIN m \cup {query} |->
        IF k \in DOMAIN m THEN m[k] ELSE [facets |-> NoFacets, bounds |-> Bounds_default]]

\* line.contains(&filter)
Contains(line, filter) ==
    \E i \in 0..(Len(line) - Len(filter)) : SubSeq(line, i + 1, i + Len(filter)) = filter

\* App::add_filter
add_filter(a, filter) ==
    LET retained == {t \in DOMAIN a.logs.logs :
                        \E n \in 1..Len(a.logs.logs[t]) : Contains(a.logs.logs[t][n], filter)}
    IN [a EXCEPT !.logs = [logs |-> [t \in retained |-> a.logs.logs[t]],
                           filters |-> a.logs.filters \cup {filter}]]

\* What reading the session file comes to: an error, or its queries.
SessionFiles == {[ok |-> FALSE, queries |-> <<>>], [ok |-> TRUE, queries |-> <<<<"a">>>>]}

\* App::load_session
load_session(a, file) ==
    IF file.ok THEN [a EXCEPT !.query_history = file.queries, !.is_loaded = TRUE] ELSE a

\* KeyCode::Enter in input mode, what follows the match on the panel:
\* clear and reset the input of the panel the focus is on by then, and go
\* back to the default panel in normal mode.
EnterDone(a) ==
    IF HasInput(a.panel)
    THEN [a EXCEPT !.inputs[as_usize(a.panel)] = reset_cursor(clear(@)),
                   !.panel = "Default", !.input_mode = "Normal"]
    ELSE Panic(a)

\* KeyCode::Enter in input mode, the match on the panel, but for the
\* messages and the return.
EnterPanel(a, file) ==
    CASE a.panel = "QueryInput" -> add_query(a, a.inputs[as_usize("QueryInput")].buffer)
      [] a.panel = "Rename" ->
            rename_query(a, a.selected, a.inputs[as_usize("Rename")].buffer)
      [] a.panel = "Search" ->
            [add_filter(a, a.inputs[as_usize("Search")].buffer) EXCEPT !.panel = "Default"]
      [] a.panel = "SessionLoad" ->
            [(IF a.inputs[as_usize("SessionLoad")].buffer \in {<<"y">>, <<"Y">>}
              THEN load_session(a, file) ELSE a)
             EXCEPT !.is_loaded = TRUE, !.panel = "Default"]
      [] OTHER -> a

\* KeyCode::Enter in input mode.
Key_Enter(file) ==
    /\ Running
    /\ Foc.input_mode = "Input"
    /\ IF Foc.panel = "SessionSave"
       THEN /\ app' = [Foc EXCEPT !.pc = "returned"]
            /\ rx_dropped' = TRUE
            /\ data_chan' = <<>>
            /\ UNCHANGED <<parser, agg, ui_chan, nsent, queries, lpc, lcur, ltodo,
                           refreshExecs, workers, datasets, cancelled, deleted>>
       ELSE /\ app' = EnterDone(EnterPanel(Foc, file))
            /\ datasets' = IF Foc.panel = "Rename"
                           THEN RenameDatasets(datasets, Foc.selected)
                           ELSE datasets
            /\ IF Foc.panel = "QueryInput"
               THEN SendAddQuery(Foc.inputs[as_usize("QueryInput")].buffer)
               ELSE UNCHANGED <<parser, agg, rx_dropped, ui_chan, nsent, data_chan, queries,
                                lpc, lcur, ltodo, refreshExecs, workers, cancelled, deleted>>

\* query_history.back().unwrap_or(&String::default())
LastQuery(a) == IF a.query_history = <<>> THEN <<>> ELSE a.query_history[Len(a.query_history)]

\* App::clear_filters
clear_filters(a) == add_query([a EXCEPT !.logs.filters = {}], LastQuery(a))

\* KeyCode::Char('C')
Key_C ==
    /\ Running
    /\ Foc.input_mode = "Normal"
    /\ app' = clear_filters(Foc)
    /\ SendAddQuery(LastQuery(Foc))
    /\ UNCHANGED datasets

\* list_state.select(Some(i)); timeseries.select(i): keys().nth(i).expect
Select(a, i) ==
    IF i < Cardinality(DOMAIN datasets)
    THEN [a EXCEPT !.list_state = Some(i), !.selected = NthKey(datasets, i)]
    ELSE Panic(a)

\* App::next
next(a) ==
    IF a.tab = "Graph" /\ DOMAIN datasets # {}
    THEN Select(a, IF a.list_state = None THEN 0
                   ELSE IF a.list_state[1] >= Cardinality(DOMAIN datasets) - 1 THEN 0
                   ELSE a.list_state[1] + 1)
    ELSE a

\* App::previous
previous(a) ==
    IF a.tab = "Graph" /\ DOMAIN datasets # {}
    THEN Select(a, IF a.list_state = None THEN 0
                   ELSE IF a.list_state[1] = 0 THEN Cardinality(DOMAIN datasets) - 1
                   ELSE a.list_state[1] - 1)
    ELSE a

\* KeyCode::Char('j') | KeyCode::Down in normal mode.
Key_j ==
    /\ Running
    /\ Foc.input_mode = "Normal"
    /\ app' = IF Foc.panel = "LogDetail" THEN Foc ELSE next(Foc)
    /\ LoopFrame

\* KeyCode::Char('k') | KeyCode::Up in normal mode.
Key_k ==
    /\ Running
    /\ Foc.input_mode = "Normal"
    /\ app' = IF Foc.panel = "LogDetail" THEN Foc ELSE previous(Foc)
    /\ LoopFrame

\* KeyCode::Char('x'), App::delete_query: list_state.selected().unwrap()
\* and remove_entry's expect() panic, the one when nothing is selected, the
\* other when the index is not below the number of datasets.
Key_x ==
    /\ Running
    /\ Foc.input_mode = "Normal"
    /\ IF Foc.list_state # None /\ Foc.list_state[1] < Cardinality(DOMAIN datasets)
       THEN LET removed == NthKey(datasets, Foc.list_state[1])
            IN /\ datasets' = remove_entry(datasets, Foc.list_state[1])
               /\ app' = [Foc EXCEPT !.meta = [k \in DOMAIN @ \ {removed} |-> @[k]]]
               /\ UiSend(DeleteQuery(removed))
               /\ deleted' = deleted \cup {removed}
               /\ cancelled' = [w \in WorkerIds |->
                                  IF Live(w) /\ WorkerKey(w) = removed /\ cancelled[w] = 0
                                  THEN 1 ELSE cancelled[w]]
       ELSE /\ app' = Panic(Foc)
            /\ UNCHANGED <<datasets, ui_chan, nsent, deleted, cancelled>>
    /\ UNCHANGED <<parser, agg, rx_dropped, data_chan, queries, lpc, lcur, ltodo,
                   refreshExecs, workers>>

\* log.split('\n'): the lines of a record.
RECURSIVE Split(_, _)
Split(log, line) ==
    IF log = <<>> THEN <<line>>
    ELSE IF Head(log) = "\n" THEN <<line>> \o Split(Tail(log), <<>>)
    ELSE Split(Tail(log), Append(line, Head(log)))

\* PayloadType::Log with the (timestamp, log) pairs it carries.
LogPayloadOf(text, logs) == [type |-> "Log", query |-> text, data |-> "rows", logs |-> logs]

\* A consumer that keeps the filters when new records arrive.
IngestLogKeepFilters(a, p) ==
    IF DOMAIN p.logs # {}
    THEN [a EXCEPT !.logs.logs = [t \in DOMAIN p.logs |-> Split(p.logs[t], <<>>)],
                   !.tab = "Logs"]
    ELSE [a EXCEPT !.tab = "Logs"]

\* App::run, PayloadType::Log
IngestLog(a, p) ==
    IF DOMAIN p.logs # {}
    THEN [a EXCEPT !.logs = [logs |-> [t \in DOMAIN p.logs |-> Split(p.logs[t], <<>>)],
                             filters |-> {}],
                   !.tab = "Logs"]
    ELSE [a EXCEPT !.tab = "Logs"]

\* A consumer that builds a fresh Dataset for every payload.
IngestMetaFresh(a, p) ==
    [a EXCEPT !.meta = [k \in DOMAIN a.meta \cup {p.query} |->
                          IF k = p.query THEN [has_data |-> TRUE, query_alias |-> None]
                          ELSE a.meta[k]],
              !.tab = IF p.query \in DOMAIN a.meta THEN @ ELSE "Graph"]

\* App::run, PayloadType::Timeseries, the Dataset's has_data and
\* query_alias and the focus.
IngestMeta(a, p) ==
    IF p.query \in DOMAIN a.meta
    THEN [a EXCEPT !.meta[p.query].has_data = TRUE]
    ELSE [a EXCEPT !.meta = [k \in DOMAIN a.meta \cup {p.query} |->
                               IF k = p.query THEN [has_data |-> TRUE, query_alias |-> None]
                               ELSE a.meta[k]],
                   !.tab = "Graph"]

\* App::run, PayloadType::None
IngestNone(a) == [a EXCEPT !.panel = "NoResult"]

\* App::run: one payload off the Result Bus, with the focus, the aliases
\* and the logs.
Run_payload ==
    /\ Running
    /\ data_chan # <<>>
    /\ data_chan' = Tail(data_chan)
    /\ LET p == Head(data_chan)
       IN /\ datasets' = IF p.type = "Timeseries" THEN IngestTimeseries(datasets, p)
                         ELSE datasets
          /\ app' = CASE p.type = "Timeseries" -> IngestMeta(Foc, p)
                      [] p.type = "Log" -> IngestLog(Foc, p)
                      [] OTHER -> IngestNone(Foc)
    /\ UNCHANGED <<parser, agg, rx_dropped, ui_chan, nsent, queries, lpc, lcur, ltodo,
                   refreshExecs, workers, cancelled, deleted>>

\* data_tx.send(payload) by the listener or a worker.
ResultBusSend(p) ==
    /\ ~rx_dropped
    /\ Len(data_chan) < MaxData
    /\ data_chan' = DataSend(<<p>>)
    /\ UNCHANGED <<parser, agg, app, rx_dropped, ui_chan, nsent, queries, lpc, lcur, ltodo,
                   refreshExecs, workers, datasets, cancelled, deleted>>

\* The focused input has room for another character.
BufferRoom == HasInput(Foc.panel) => Len(Foc.inputs[as_usize(Foc.panel)].buffer) < MaxBuf

\* ------------------------------------------- the parser and the serializer
\* The pieces the texts handed to the parser are put together from.
SelectWords == {<<"SELECT">>, <<"select">>, <<>>}
SelectBodies == {<<"a">>, <<"a", "as", "value">>}
FromParts == {<<"FROM", "T">>, <<>>}
WhereParts == {<<"WHERE", "x">>, <<>>}
FacetParts == {<<"FACET", "f">>, <<>>}
SinceParts == {<<"SINCE", "s">>, <<>>}
ModeParts == {<<"TIMESERIES">>, <<"TIMESERIES", "AUTO">>, <<"TABLE">>, <<>>}

\* Texts in the order of the grammar SELECT .. FROM .. [WHERE ..] ..
GrammarTexts ==
    {sw \o sb \o fr \o wh \o fa \o si \o mo :
        sw \in SelectWords, sb \in SelectBodies, fr \in FromParts, wh \in WhereParts,
        fa \in FacetParts, si \in SinceParts, mo \in ModeParts}

\* Texts in the order parser.rs takes the clauses in.
NomTexts ==
    {<<"FROM", "T", "SELECT", "a", "WHERE", "x", "FACET", "f", "SINCE", "s",
       "UNTIL", "u", "LIMIT", "l">> \o mo : mo \in ModeParts}
    \cup {<<"from", "T", "select", "a", "where", "x", "facet", "f", "since", "s",
             "until", "u", "limit", "l", "timeseries">>,
           <<"FROM", "T", "SELECT", "a">>}

ParserTexts ==
    GrammarTexts \cup NomTexts \cup RawTexts \cup {NOWHERE}
        \cup {AllColumnSearch(t) : t \in RawTexts}

InitParser ==
    /\ InitEngine
    /\ \E t \in ParserTexts : parser = [ParserIdle EXCEPT !.pc = "start", !.input = t]
    /\ agg = AggIdle

\* parser::parse_nrql applied to the text.
P_parse_nrql ==
    /\ parser.pc = "start"
    /\ parser' = [parser EXCEPT !.pc = "nom", !.nom = parse_nrql(parser.input)]
    /\ UNCHANGED <<engine, agg>>

\* text.to_nrql().map(QueryType::from), applied to the text as typed or to
\* the text the serializer has made of it.
P_to_nrql ==
    /\ parser.pc \in {"start", "serialized"}
    /\ LET r == to_nrql(IF parser.pc = "start" THEN parser.input ELSE parser.text)
       IN parser' = [parser EXCEPT
                       !.pc = IF r.kind = "ok" THEN "parsed" ELSE "failed",
                       !.cur = r,
                       !.first = IF parser.pc = "start" THEN r ELSE @,
                       !.class = IF r.kind = "ok" THEN QueryTypeFrom(r.q) ELSE "none"]
    /\ UNCHANGED <<engine, agg>>

\* NRQLQuery::to_string applied to the query parsed last.
P_to_string ==
    /\ parser.pc = "parsed"
    /\ parser.rounds < MaxRounds
    /\ parser' = [parser EXCEPT !.pc = "serialized", !.text = to_string(parser.cur.q),
                                !.rounds = @ + 1]
    /\ UNCHANGED <<engine, agg>>

NextParser == P_parse_nrql \/ P_to_nrql \/ P_to_string

SpecParser == InitParser /\ [][NextParser]_vars

\* ------------------------------------------------------ the specifications
Selectable == 0..(Cardinality(DOMAIN datasets) - 1)

\* The listener's side: the operator submits and deletes queries, the timer
\* publishes refreshes, the listener is the only receiver of the Control Bus.
NextListener ==
    \/ ListenRecv
    \/ ListenAddDone
    \/ ListenRefreshDone
    \/ nsent < MaxSends /\ RefreshTick
    \/ nsent < MaxSends /\ \E raw \in RawTexts : App_add_query(raw)
    \/ nsent < MaxSends /\ \E i \in Selectable : App_delete_query(i)
    \/ App_ingest

SpecListener == Init /\ [][NextListener]_vars

\* The workers' side: workers are spawned, poll and are deleted; the
\* listener and every worker receive from the one Control Bus.
NextWorkers ==
    \/ ListenRecv
    \/ nsent < MaxCtl /\ RefreshTick
    \/ \E q \in WorkerQueries : Backend_add_query(q)
    \/ \E w \in WorkerIds : WorkerRecv(w)
    \/ \E w \in WorkerIds : WorkerPoll(w)
    \/ \E w \in WorkerIds : \E resp \in Facets : WorkerSend(w, resp)
    \/ nsent < MaxCtl /\ \E i \in Selectable : App_delete_query(i)
    \/ App_ingest

SpecWorkers == Init /\ [][NextWorkers]_vars

\* The runtime polls every spawned task again and again, a request comes
\* back, the clock reaches a second divisible by 5, the consumer loop keeps
\* draining the Result Bus.
FairWorkers ==
    /\ SpecWorkers
    /\ WF_vars(ListenRecv)
    /\ WF_vars(App_ingest)
    /\ \A w \in WorkerIds :
         /\ WF_vars(WorkerRecv(w))
         /\ WF_vars(WorkerPoll(w))
         /\ WF_vars(\E resp \in Facets : WorkerSend(w, resp))

\* The workers and the Telemetry Client: every outcome of a poll, no
\* traffic on the Control Bus.
NextClient ==
    \/ \E q \in WorkerQueries : Backend_add_query(q)
    \/ \E w \in WorkerIds : WorkerPoll(w)
    \/ \E w \in WorkerIds : \E resp \in Responses : WorkerSend(w, resp)
    \/ \E w \in WorkerIds : WorkerMalformed(w)
    \/ App_ingest

SpecClient == Init /\ [][NextClient]_vars

\* The consumer's side: workers of two queries push the payloads of their
\* responses, the consumer loop drains the Result Bus.
NextConsumer ==
    \/ \E q \in WorkerQueries : Backend_add_query(q)
    \/ \E w \in WorkerIds : WorkerPoll(w)
    \/ \E w \in WorkerIds : \E data \in PollRows : WorkerSendRows(w, data)
    \/ App_ingest

SpecConsumer == Init /\ [][NextConsumer]_vars

\* The texts submitted in the runs in which the operator quits.
QuitTexts == {TS1, BAD}

\* The operator quits while workers poll and the listener executes a
\* submitted query.
NextShutdown ==
    \/ nsent < MaxCtl /\ \E raw \in QuitTexts : App_add_query(raw)
    \/ ListenRecv
    \/ ListenAddDone
    \/ \E q \in WorkerQueries : Backend_add_query(q)
    \/ \E w \in WorkerIds : WorkerRecv(w)
    \/ \E w \in WorkerIds : WorkerPoll(w)
    \/ \E w \in WorkerIds : \E resp \in Facets : WorkerSend(w, resp)
    \/ App_ingest
    \/ App_quit

SpecShutdown == Init /\ [][NextShutdown]_vars

\* The operator at the query box: the session prompt, typing, the cursor
\* and history keys, submitting, and the answers without data.
NextInput ==
    \/ nsent < MaxCtl /\ \E file \in SessionFiles : Key_Enter(file)
    \/ Key_e
    \/ Key_i
    \/ Key_Esc
    \/ BufferRoom /\ \E c \in Chars : Key_Char(c)
    \/ Key_Backspace
    \/ Key_Left
    \/ Key_Right
    \/ Key_Up
    \/ Key_Down
    \/ ui_chan # <<>> /\ ResultBusSend(NonePayload)
    \/ Run_payload

SpecInput == Init /\ [][NextInput]_vars

\* The payloads the workers of two charted queries push.
ChartPayloads ==
    {WorkerPayloadOf(to_nrql(TS1).q, <<RowA>>), WorkerPayloadOf(to_nrql(TS1).q, <<RowV>>),
     WorkerPayloadOf(to_nrql(TS2).q, <<RowA>>)}

\* The operator at the chart list: payloads of two queries arrive, the
\* operator answers the session prompt with a bare Enter, walks the list,
\* renames and deletes.
NextCharts ==
    \/ \E file \in SessionFiles : Key_Enter(file)
    \/ Key_r
    \/ app.is_loaded /\ BufferRoom /\ Key_Char("a")
    \/ Key_j
    \/ Key_k
    \/ nsent < MaxCtl /\ Key_x
    \/ \E p \in ChartPayloads : ResultBusSend(p)
    \/ Run_payload

SpecCharts == Init /\ [][NextCharts]_vars

\* The records of the Log payloads: timestamp -> log text, "\n" between
\* the lines.
LogRecords ==
    {[t \in {"1"} |-> <<"a", "\n", "y">>],
     [t \in {"1", "2"} |-> IF t = "1" THEN <<"a">> ELSE <<"a", "y", "y", "\n">>]}

\* The operator at the log list: Log payloads arrive, the operator answers
\* the session prompt with a bare Enter, types filters and clears them,
\* changes tab and panel, and quits.
NextLogs ==
    \/ \E file \in SessionFiles : Key_Enter(file)
    \/ Key_F
    \/ Key_q
    \/ Key_d
    \/ Key_T
    \/ app.is_loaded /\ BufferRoom /\ Key_Char("y")
    \/ Key_Backspace
    \/ nsent < MaxCtl /\ Key_C
    \/ \E logs \in LogRecords : ResultBusSend(LogPayloadOf(LOG1, logs))
    \/ Run_payload

SpecLogs == Init /\ [][NextLogs]_vars

\* ------------------------------------------------------------------ claims
KeyTS1 == to_string(to_nrql(TS1).q)
KeyTS2 == to_string(to_nrql(TS2).q)

\* C1: once DeleteQuery(q) is published while a worker polls q, that worker
\* sends at most one further payload for q.
C1_AtMostOneLatePayload == \A w \in WorkerIds : cancelled[w] <= 2

\* C2: a worker whose DeleteQuery was published while it was live
\* eventually terminates.
C2_EventuallyCancelled ==
    \A w \in WorkerIds : (cancelled[w] >= 1) ~> (workers[w].pc = "done")

\* The receivers that were subscribed when the DeleteQuery(text) now at the
\* head of the Control Bus was published and still are: the listener, and
\* the live workers of that identity marked at publication.
Addressees(text) ==
    {r \in Receivers :
        /\ Subscribed(r)
        /\ r # Listener => WorkerKey(r) = text /\ cancelled[r] >= 1}

\* C3: a message is delivered to every subscribed receiver: a DeleteQuery
\* leaves the Control Bus, taken by one receiver, only when no second
\* receiver is waiting for it.
C3_BroadcastDelivery ==
    [][(/\ ui_chan # <<>> /\ ui_chan' = Tail(ui_chan)
        /\ Head(ui_chan).kind = "DeleteQuery")
         => Cardinality(Addressees(Head(ui_chan).text)) <= 1]_vars

\* The requests for one text that are outstanding at the Telemetry Client.
Outstanding(text) ==
    Cardinality({w \in WorkerIds : workers[w].pc = "inflight" /\ WorkerKey(w) = text})
    + (IF lpc \in {"add", "refresh"} /\ RequestText(lcur) = text THEN 1 ELSE 0)

\* C4: at most one request per query identity is outstanding.
C4_OneInFlightPerQuery ==
    /\ \A w \in WorkerIds : workers[w].pc = "inflight" => Outstanding(WorkerKey(w)) <= 1
    /\ lpc \in {"add", "refresh"} => Outstanding(RequestText(lcur)) <= 1

\* C5: a worker returns from its loop only by taking the DeleteQuery of its
\* own identity, and every poll it completes pushes a payload keyed by its
\* own identity.
C5_Independence ==
    [][\A w \in WorkerIds :
         /\ LiveIn(workers, w) /\ workers'[w].pc = "done"
              => ui_chan # <<>> /\ Head(ui_chan) = DeleteQuery(WorkerKey(w))
         /\ workers[w].pc = "inflight" /\ workers'[w].pc = "drain"
              => /\ Len(data_chan') = Len(data_chan) + 1
                 /\ data_chan'[Len(data_chan')].type = "Timeseries"
                 /\ data_chan'[Len(data_chan')].query = WorkerKey(w)]_vars

\* Two workers of different identities; the DeleteQuery of one was published
\* and has left the bus; the other is polling again.
C5_Witness ==
    \E w1, w2 \in WorkerIds :
        /\ cancelled[w1] >= 1
        /\ ui_chan = <<>>
        /\ workers[w2].pc = "inflight"
        /\ workers[w2].query # workers[w1].query
        /\ WorkerKey(w2) \in DOMAIN datasets

PushedData ==
    /\ Len(data_chan') = Len(data_chan) + 1
    /\ data_chan'[Len(data_chan')].type # "None"

C9_DeleteRemoves ==
    [][/\ (/\ lpc = "recv" /\ ui_chan # <<>> /\ ui_chan' = Tail(ui_chan)
           /\ Head(ui_chan).kind = "DeleteQuery")
         => Head(ui_chan).text \notin queries'
       /\ \A t \in queries' \ queries : lpc = "add" /\ lcur = t
       /\ lpc' = "refresh" => lcur' \in queries' /\ queries' = queries]_vars

\* The operator deleted TS1 while it was active, the listener has processed
\* the deletion, and another query is still active.
C9_Witness ==
    /\ TS1 \in deleted
    /\ TS1 \notin queries
    /\ TS2 \in queries
    /\ ui_chan = <<>>
    /\ lpc = "recv"

\* C10: a key the operator deleted stays out of the dataset map until it
\* is submitted again.
C10_StaleIgnored == \A k \in deleted : k \notin DOMAIN datasets
\* The clause names other than TIMESERIES.
OtherClauseNames == {"SELECT", "FROM", "WHERE", "FACET", "SINCE", "UNTIL", "LIMIT"}

\* The text carries the TIMESERIES token as its closing clause.
HasTimeseriesToken(s) ==
    \E i \in 1..Len(s) :
        /\ Upper(s[i]) = "TIMESERIES"
        /\ \A j \in (i + 1)..Len(s) : Upper(s[j]) \notin OtherClauseNames

\* The text the parser was last applied to.
ParsedText == IF parser.rounds = 0 THEN parser.input ELSE parser.text

TakesUnparsable ==
    /\ lpc = "recv"
    /\ ui_chan # <<>>
    /\ ui_chan' = Tail(ui_chan)
    /\ Head(ui_chan).kind = "AddQuery"
    /\ Classify(Head(ui_chan).text) = "err"

Pushed == data_chan'[Len(data_chan')]

\* C18: a poll that fails with a transport error does not end the worker
\* and is not repeated at once: the worker pushes a payload without rows
\* for the cycle and is back at the top of its loop.
C18_TransportError ==
    [][\A w \in WorkerIds :
         (/\ workers[w].pc = "inflight"
          /\ workers'[w].pc # "inflight"
          /\ Len(data_chan') = Len(data_chan) + 1
          /\ Pushed.cause = "err")
           => /\ workers'[w].pc = "drain"
              /\ Pushed.query = WorkerKey(w)
              /\ Pushed.data = "empty"]_vars

\* The only worker has pushed the payload of a failed poll and is polling
\* again.
C18_Witness ==
    /\ data_chan # <<>>
    /\ Head(data_chan).cause = "err"
    /\ \E w \in WorkerIds :
         /\ workers[w].pc = "inflight"
         /\ WorkerKey(w) = Head(data_chan).query
         /\ \A v \in WorkerIds \ {w} : workers[v].pc = "none"

\* C19: an execution that succeeds without rows is pushed as the no-data
\* tag, one that succeeds with rows as a Timeseries payload.
C19_EmptyIsNoData ==
    \A i \in 1..Len(data_chan) :
        "cause" \in DOMAIN data_chan[i] =>
            /\ data_chan[i].cause = "empty" => data_chan[i].type = "None"
            /\ data_chan[i].cause = "rows" => data_chan[i].type = "Timeseries"

\* C20: a response that does not deserialize makes the call return an
\* error: no task panics on it.
C20_MalformedIsError == \A w \in WorkerIds : workers[w].pc # "panicked"

\* The text has no SELECT or no FROM.
LacksSelectOrFrom(s) ==
    \/ ~\E i \in 1..Len(s) : Upper(s[i]) = "SELECT"
    \/ ~\E i \in 1..Len(s) : Upper(s[i]) = "FROM"

\* C14: on a text without SELECT or without FROM the parser returns an
\* error value; it does not panic.
C14_ParseErrorIsValue ==
    LacksSelectOrFrom(parser.input) =>
        /\ parser.pc = "nom" => parser.nom.kind = "err"
        /\ parser.pc = "failed" => parser.cur.kind = "err"

\* The text begins with SELECT and has a FROM after it.
WellFormed(s) ==
    /\ s # <<>>
    /\ Upper(s[1]) = "SELECT"
    /\ \E i \in 2..Len(s) : Upper(s[i]) = "FROM"

\* C15: a well-formed text parses, its serialization parses again, and the
\* select, from and where fields of the two parses agree.
C15_RoundTrip ==
    WellFormed(parser.input) =>
        /\ parser.pc = "nom" => parser.nom.kind = "ok"
        /\ parser.pc # "failed"
        /\ parser.pc = "parsed" =>
             /\ parser.cur.q.select = parser.first.q.select
             /\ parser.cur.q.from = parser.first.q.from
             /\ parser.cur.q.where = parser.first.q.where

\* The places of s at which the words "as value" stand.
AliasAt(s) == {i \in 1..(Len(s) - 1) : s[i] = "as" /\ s[i + 1] = "value"}

\* The select clause names its column itself.
HasOwnAlias(q) == \E i \in 1..Len(q.select) : q.select[i] = "as"

\* C16: the serialization of a Timeseries query without an alias of its
\* own carries "as value" right after the select clause and before FROM;
\* the serialization of a Log query carries none.
C16_ValueAlias ==
    (parser.pc = "serialized" /\ ~HasOwnAlias(parser.cur.q)) =>
        IF parser.class = "Timeseries"
        THEN SubSeq(parser.text, Len(parser.cur.q.select) + 2,
                    Len(parser.cur.q.select) + 4) = <<"as", "value", "FROM">>
        ELSE AliasAt(parser.text) = {}

\* C17: however often a Timeseries query is serialized and parsed again,
\* its serialization carries exactly one "as value".
C17_AliasIdempotent ==
    (parser.pc = "serialized" /\ parser.class = "Timeseries") =>
        Cardinality(AliasAt(parser.text)) = 1

\* C21: a sender whose send the Result Bus refuses, the receiver being
\* dropped, returns: a worker ends without a panic and never polls or
\* sends again; the listener, which registers a text before it sends its
\* rows, ends as well; nothing is queued after the receiver is dropped.
C21_ConsumerGone ==
    [][/\ \A w \in WorkerIds :
            /\ (rx_dropped /\ workers[w].pc = "inflight" /\ workers'[w].pc # "inflight")
                 => workers'[w].pc = "senderr"
            /\ workers[w].pc = "senderr" => workers'[w] = workers[w]
       /\ (rx_dropped /\ lpc = "add" /\ lcur \notin queries /\ lcur \in queries')
            => lpc' = "done"
       /\ lpc = "done" => lpc' = "done" /\ queries' = queries
       /\ rx_dropped => rx_dropped' /\ data_chan' = <<>>]_vars

\* The receiver is dropped, one worker has returned on a refused send while
\* another is still in flight, and the listener has returned as well.
C21_Witness ==
    /\ rx_dropped
    /\ lpc = "done"
    /\ \E w1, w2 \in WorkerIds :
         workers[w1].pc = "senderr" /\ workers[w2].pc = "inflight"

\* The label a row is expected under: its own, or "value" when it has none.
LabelOf(row) == IF row.facet = None THEN "value" ELSE row.facet[1]

\* The rows of the list that are expected under label L, in arrival order.
RowsUnder(data, L) == SelectSeq(data, LAMBDA r : LabelOf(r) = L)

Infinity == F64_MAX + 1

MinOf(S) == CHOOSE x \in S : \A y \in S : x <= y
MaxOf(S) == CHOOSE x \in S : \A y \in S : x >= y

EndsOf(data) == {data[i].end_time_seconds : i \in 1..Len(data)}
ValuesOf(data) == {data[i].value : i \in 1..Len(data)}

\* The bounds of a row list whose mins start at top and whose maxes start
\* at (0, 0).
ExpectedBounds(data, top) ==
    [mins |-> <<MinOf({top} \cup EndsOf(data)), MinOf({top} \cup ValuesOf(data))>>,
     maxes |-> <<MaxOf({0} \cup EndsOf(data)), MaxOf({0} \cup ValuesOf(data))>>]

\* The rows of the example: end times 10, 20, 30 with values 1, 5, 3.
IsExample(data) ==
    /\ Len(data) = 3
    /\ <<data[1].end_time_seconds, data[2].end_time_seconds, data[3].end_time_seconds>>
         = <<10, 20, 30>>
    /\ <<data[1].value, data[2].value, data[3].value>> = <<1, 5, 3>>

\* C25 as stated: mins is the component-wise minimum of (+infinity,
\* +infinity) and the (end-time, value) of every row, maxes the
\* component-wise maximum of (0, 0) and the same pairs; the example has
\* maxes = (30, 5).
C25_BoundsInfinity ==
    agg.pc = "done" =>
        /\ agg.bounds = ExpectedBounds(agg.rows, Infinity)
        /\ IsExample(agg.rows) => agg.bounds.maxes = <<30, 5>>

\* C25 as amended: mins is the component-wise minimum of (f64::MAX,
\* f64::MAX), the largest finite value, and the (end-time, value) of every
\* row, maxes the component-wise maximum of (0, 0) and the same pairs; the
\* example has maxes = (30, 5).
C25_BoundsF64Max ==
    agg.pc = "done" =>
        /\ agg.bounds = ExpectedBounds(agg.rows, F64_MAX)
        /\ IsExample(agg.rows) => agg.bounds.maxes = <<30, 5>>

\* The rows of the example have been aggregated.
C25_Witness == agg.pc = "done" /\ IsExample(agg.rows) /\ agg.bounds.mins = <<10, 1>>

\* C29: each facet holds one point per row of its label, in the arrival
\* order of the rows; the first has x = the begin time of its row, every
\* later one x = the end time of its row.
C29_FirstPointAsymmetry ==
    agg.pc = "done" =>
        /\ DOMAIN agg.facets = {LabelOf(agg.rows[i]) : i \in 1..Len(agg.rows)}
        /\ \A L \in DOMAIN agg.facets :
             LET rs == RowsUnder(agg.rows, L)
             IN /\ Len(agg.facets[L]) = Len(rs)
                /\ \A j \in 1..Len(rs) :
                     agg.facets[L][j] =
                        <<IF j = 1 THEN rs[j].begin_time_seconds ELSE rs[j].end_time_seconds,
                          rs[j].value>>

\* Two rows of facet "A" arrived with a row of another facet between them,
\* the later of the two with the earlier end time.
C29_Witness ==
    /\ agg.pc = "done"
    /\ Len(agg.rows) = 3
    /\ agg.rows[2].facet = None
    /\ agg.rows[1].end_time_seconds = 30
    /\ agg.rows[3].end_time_seconds = 10
    /\ "A" \in DOMAIN agg.facets
    /\ agg.facets["A"] = <<<<20, 5>>, <<10, 3>>>>

\* The consumer takes a Timeseries payload off the Result Bus.
IngestsTimeseries ==
    /\ data_chan # <<>>
    /\ data_chan' = Tail(data_chan)
    /\ Head(data_chan).type = "Timeseries"

\* C22: after a Timeseries payload is ingested for a key the map holds,
\* the facets and the bounds of that dataset are those of the payload, and
\* no other dataset has changed.
C22_WholesaleReplacement ==
    [][(IngestsTimeseries /\ Head(data_chan).query \in DOMAIN datasets)
         => /\ DOMAIN datasets' = DOMAIN datasets
            /\ datasets'[Head(data_chan).query].facets = Head(data_chan).data.facets
            /\ datasets'[Head(data_chan).query].bounds = Head(data_chan).data.bounds
            /\ \A k \in DOMAIN datasets \ {Head(data_chan).query} :
                 datasets'[k] = datasets[k]]_vars

\* The dataset of a query holds the facets "A" and "value" of an earlier
\* poll, and the payload of a poll that brought "value" alone is next.
C22_Witness ==
    /\ KeyTS1 \in DOMAIN datasets
    /\ DOMAIN datasets[KeyTS1].facets = {"A", "value"}
    /\ data_chan # <<>>
    /\ Head(data_chan).query = KeyTS1
    /\ DOMAIN Head(data_chan).data.facets = {"value"}

\* C23: ingesting the payload a second time leaves the map as it is after
\* the first time, and the map gains no key but the identity of the
\* payload.
C23_IdempotentOverwrite ==
    [][IngestsTimeseries
         => /\ IngestTimeseries(datasets', Head(data_chan)) = datasets'
            /\ DOMAIN datasets' = DOMAIN datasets \cup {Head(data_chan).query}]_vars

\* The same payload is on the Result Bus twice, behind a dataset of its
\* key that an earlier poll left.
C23_Witness ==
    /\ Len(data_chan) = 2
    /\ data_chan[1] = data_chan[2]
    /\ data_chan[1].query \in DOMAIN datasets
    /\ datasets[data_chan[1].query] # data_chan[1].data

\* C30: two Timeseries payloads of different identities on the Result Bus
\* leave the same map whichever of them is ingested first.
C30_OrderIndependence ==
    \A i, j \in 1..Len(data_chan) :
        (/\ data_chan[i].type = "Timeseries"
         /\ data_chan[j].type = "Timeseries"
         /\ data_chan[i].query # data_chan[j].query)
          => IngestTimeseries(IngestTimeseries(datasets, data_chan[i]), data_chan[j])
             = IngestTimeseries(IngestTimeseries(datasets, data_chan[j]), data_chan[i])

\* Payloads of two queries are on the Result Bus, the later submitted
\* query first, and the map holds a dataset of each from earlier polls.
C30_Witness ==
    /\ Len(data_chan) = 2
    /\ data_chan[1].query = KeyTS2
    /\ data_chan[2].query = KeyTS1
    /\ DOMAIN datasets = {KeyTS1, KeyTS2}
    /\ datasets[KeyTS1] # data_chan[2].data
    /\ \E w1, w2 \in WorkerIds :
         w1 < w2 /\ WorkerKey(w1) = KeyTS1 /\ WorkerKey(w2) = KeyTS2

\* The text has a SELECT and a FROM clause and no other clause name.
OnlySelectFrom(s) ==
    /\ \E i \in 1..Len(s) : Upper(s[i]) = "SELECT"
    /\ \E i \in 1..Len(s) : Upper(s[i]) = "FROM"
    /\ \A i \in 1..Len(s) :
         Upper(s[i]) \notin {"WHERE", "FACET", "SINCE", "UNTIL", "LIMIT", "TIMESERIES", "TABLE"}

\* C26: a text with the SELECT and FROM clauses alone parses, and every
\* optional field of the parsed query is absent.
C26_OptionalClauses ==
    OnlySelectFrom(parser.input) =>
        /\ parser.pc = "nom" => parser.nom.kind = "ok"
        /\ parser.pc # "failed"
        /\ parser.pc = "parsed" =>
             /\ parser.cur.q.facet = None
             /\ parser.cur.q.since = None
             /\ parser.cur.q.until = None
             /\ parser.cur.q.limit = None
             /\ parser.cur.q.mode = None

\* The text with its clause names in capitals.
UpperNames(s) == [i \in 1..Len(s) |-> Upper(s[i])]

\* C27: a text parses to what the text with its clause names in capitals
\* parses to.
C27_CaseInsensitive ==
    parser.pc = "nom" => parser.nom = parse_nrql(UpperNames(parser.input))

\* C28: a Timeseries payload the listener pushes carries, as its
\* identity, the raw text whose execution it is.
C28_IdentityIsRawText ==
    [][(/\ lpc \in {"add", "refresh"}
        /\ Len(data_chan') = Len(data_chan) + 1
        /\ Pushed.type = "Timeseries")
         => Pushed.query = lcur]_vars

\* The number of points the facets of S hold together.
RECURSIVE PointCount(_, _)
PointCount(facets, S) ==
    IF S = {} THEN 0
    ELSE LET f == CHOOSE g \in S : TRUE
         IN Len(facets[f]) + PointCount(facets, S \ {f})

\* The positions of the rows of the list whose label is L.
PositionsUnder(data, L) == {i \in 1..Len(data) : FacetOf(data[i]) = L}

\* C37: the facets hold as many points together as the response has rows,
\* and every row has its point (its value, at its begin or its end time)
\* in the facet of its label, "value" for a row without one, each facet
\* holding as many points as there are rows of its label.
C37_NoRowLostOrDuplicated ==
    agg.pc = "done" =>
        /\ PointCount(agg.facets, DOMAIN agg.facets) = Len(agg.rows)
        /\ \A i \in 1..Len(agg.rows) :
             LET L == IF agg.rows[i].facet = None THEN "value" ELSE agg.rows[i].facet[1]
             IN /\ L \in DOMAIN agg.facets
                /\ Cardinality(PositionsUnder(agg.rows, L)) = Len(agg.facets[L])
                /\ \E j \in 1..Len(agg.facets[L]) :
                     /\ agg.facets[L][j][2] = agg.rows[i].value
                     /\ agg.facets[L][j][1] \in {agg.rows[i].begin_time_seconds,
                                                 agg.rows[i].end_time_seconds}

\* Three rows, two of one label and one without, have been aggregated.
C37_Witness ==
    /\ agg.pc = "done"
    /\ Len(agg.rows) = 3
    /\ agg.rows[1].facet = Some("A")
    /\ agg.rows[2].facet = None
    /\ agg.rows[3].facet = Some("A")
    /\ DOMAIN agg.facets = {"A", "value"}
    /\ Len(agg.facets["A"]) = 2
    /\ Len(agg.facets["value"]) = 1

\* C38: for a response that has rows, none with a negative value, every
\* point of every facet lies within the bounds, and mins <= maxes.
C38_BoundsEnclose ==
    (/\ agg.pc = "done"
     /\ agg.rows # <<>>
     /\ \A i \in 1..Len(agg.rows) : agg.rows[i].value >= 0)
        => /\ \A L \in DOMAIN agg.facets : \A j \in 1..Len(agg.facets[L]) :
                /\ agg.bounds.mins[1] <= agg.facets[L][j][1]
                /\ agg.facets[L][j][1] <= agg.bounds.maxes[1]
                /\ agg.bounds.mins[2] <= agg.facets[L][j][2]
                /\ agg.facets[L][j][2] <= agg.bounds.maxes[2]
           /\ agg.bounds.mins[1] <= agg.bounds.maxes[1]
           /\ agg.bounds.mins[2] <= agg.bounds.maxes[2]

\* C32: whenever the loop reads a key in input mode, the panel the focus
\* is on is one of the nine panels that have an input buffer.
C32_FocusedPanelHasInput ==
    (app.pc = "run" /\ Foc.input_mode = "Input") => as_usize(Foc.panel) \in 0..8

\* C33: the cursor of every input is between 0 and the length of its
\* buffer.
C33_CursorWithinBuffer ==
    \A i \in DOMAIN app.inputs :
        /\ 0 <= app.inputs[i].cursor_position
        /\ app.inputs[i].cursor_position <= Len(app.inputs[i].buffer)

\* The history after it is rotated by one place, the front going to the
\* back.
Rotated(h) == IF h = <<>> THEN h ELSE Append(Tail(h), Head(h))

\* C35: an Up key moves the front of the history to its back and a Down
\* key moves it back, and neither adds nor removes an entry, also when
\* the history is empty.
C35_HistoryOnlyRotates ==
    [][/\ Key_Up => /\ app'.query_history = Rotated(app.query_history)
                    /\ Len(app'.query_history) = Len(app.query_history)
       /\ Key_Down => /\ Rotated(app'.query_history) = app.query_history
                      /\ Len(app'.query_history) = Len(app.query_history)]_vars

\* The step ingests a Timeseries payload.
IngestsChart == Run_payload /\ Head(data_chan).type = "Timeseries"

\* The step is rename_query on the dataset of the selected key.
RenamesExisting ==
    /\ \E file \in SessionFiles : Key_Enter(file)
    /\ Foc.panel = "Rename"
    /\ Foc.selected \in DOMAIN datasets

C34_SelectionValid ==
    /\ app.pc # "panicked"
    /\ app.list_state # None => app.list_state[1] < Cardinality(DOMAIN datasets)

\* The text of line is found in it from some position on.
HasText(line, f) ==
    \E from \in 1..(Len(line) + 1) :
        /\ from + Len(f) - 1 <= Len(line)
        /\ \A n \in 1..Len(f) : line[from + n - 1] = f[n]

\* C36: every record the consumer holds has, for every active filter, a
\* line that contains the filter.
C36_FilterInvariant ==
    \A f \in app.logs.filters : \A t \in DOMAIN app.logs.logs :
        \E n \in 1..Len(app.logs.logs[t]) : HasText(app.logs.logs[t][n], f)

\* Two filters are active; the one record with a line that has both texts
\* is held, the other is gone.
C36_Witness ==
    /\ app.logs.filters = {<<"y">>, <<"y", "y">>}
    /\ DOMAIN app.logs.logs = {"2"}
    /\ app.logs.logs["2"] = <<<<"a", "y", "y">>, <<>>>>
====
